---- MODULE Spec2Model ----
(***************************************************************************)
(* Verification model of the lysimeter-analysis signal pipeline:           *)
(*   NonStandardEvents.detect_nse      (non_standard_events.py)            *)
(*   WaterBalance.calculate_eta        (water_balance.py)                  *)
(*   utils.aggregate_data / convert_to_minutes   (utils.py)                *)
(*   LoadCellCalibration and its use in run_analysis                       *)
(*                                                                         *)
(* Conventions.  A pandas cell is either missing or a number.  Numbers are *)
(* exact rationals <<n, d>> (d > 0, lowest terms) standing for the floats  *)
(* of the program; a missing cell (NaN / None) is the empty tuple.  A      *)
(* C_NSE_Type cell is None or the sequence of labels that the program      *)
(* joins with ", " (<<"rain", "rain">> stands for "rain, rain").  A column *)
(* name is the pair <<channel, suffix>> (<<"X", "_NSE">> stands for        *)
(* "X_NSE"); the raw channel column has the empty suffix.  Rows are        *)
(* 1..Len(ts); position i of the model is pandas position i-1.             *)
(* pandas semantics are those of pandas 1.x / 2.x, the releases on which   *)
(* fillna(method=...) of water_balance.py runs.                            *)
(***************************************************************************)
EXTENDS Integers, Sequences, FiniteSets, TLC

VARIABLES
    df,                 \* the DataFrame object shared by the detector and the water balance
    possible_columns,   \* NonStandardEvents.possible_columns
    columns,            \* NonStandardEvents.columns
    threshold,          \* NonStandardEvents.threshold
    NSEcount,           \* NonStandardEvents.NSEcount
    manual_nse_df,      \* NonStandardEvents.manual_nse_df
    wb_factor,          \* WaterBalance.custom_calibration_factor
    last,               \* the last pipeline call and how it ended
    cal,                \* a LoadCellCalibration object
    cal_last,           \* the last calibration call and what it returned
    agg                 \* the last aggregate_data call: its inputs and how it ended

vars == <<df, possible_columns, columns, threshold, NSEcount, manual_nse_df,
          wb_factor, last, cal, cal_last, agg>>

pipe_vars == <<df, possible_columns, columns, threshold, NSEcount, manual_nse_df,
               wb_factor, last>>

(***************************************************************************)
(* Bounds of the model                                                     *)
(***************************************************************************)
MaxRows == 4
\* the resampled tables have at most MaxBins rows
MaxBins == 100

(***************************************************************************)
(* Missing values and exact arithmetic                                     *)
(***************************************************************************)
None == <<>>
NaN == <<>>
Some(x) == <<x>>
IsNaN(x) == x = NaN

Abs(x) == IF x < 0 THEN -x ELSE x

RECURSIVE GCD(_, _)
GCD(a, b) == IF b = 0 THEN a ELSE GCD(b, a % b)

\* the rational n/d in lowest terms with a positive denominator (d # 0)
Rat(n, d) ==
    LET s == IF d < 0 THEN -1 ELSE 1
        g == GCD(Abs(n), Abs(d))
    IN  <<(s * n) \div g, (s * d) \div g>>

Num(n) == <<n, 1>>
Zero == Num(0)

\* float arithmetic: a missing operand gives a missing result
RAdd(x, y) == IF IsNaN(x) \/ IsNaN(y) THEN NaN
              ELSE Rat(x[1] * y[2] + y[1] * x[2], x[2] * y[2])
RNeg(x) == IF IsNaN(x) THEN NaN ELSE <<-x[1], x[2]>>
RSub(x, y) == RAdd(x, RNeg(y))
RMul(x, y) == IF IsNaN(x) \/ IsNaN(y) THEN NaN
              ELSE Rat(x[1] * y[1], x[2] * y[2])
\* x / k for an integer k # 0
RDivInt(x, k) == IF IsNaN(x) THEN NaN ELSE Rat(x[1], x[2] * k)
RAbs(x) == IF IsNaN(x) THEN NaN ELSE <<Abs(x[1]), x[2]>>

\* float comparisons: every comparison with a missing value is false
RLt(x, y) == ~IsNaN(x) /\ ~IsNaN(y) /\ x[1] * y[2] < y[1] * x[2]
RGt(x, y) == RLt(y, x)
RLe(x, y) == ~IsNaN(x) /\ ~IsNaN(y) /\ x[1] * y[2] <= y[1] * x[2]
RMin(x, y) == IF RLe(x, y) THEN x ELSE y
RMax(x, y) == IF RLe(x, y) THEN y ELSE x

Range(s) == {s[i] : i \in DOMAIN s}

\* the sequence s itself, written out element by element
Fix(s) == SubSeq(s, 1, Len(s))

(***************************************************************************)
(* The table                                                               *)
(***************************************************************************)
RAW == ""
Key(c, suffix) == <<c, suffix>>
HasCol(t, c, suffix) == Key(c, suffix) \in DOMAIN t.col
Col(t, c, suffix) == t.col[Key(c, suffix)]
NRows(t) == Len(t.ts)
Rows(t) == 1..NRows(t)

\* df[name] = values : adds the column or replaces it, every other column kept
SetCol(t, c, suffix, values) ==
    [t EXCEPT !.col = [k \in (DOMAIN t.col) \cup {Key(c, suffix)} |->
                          IF k = Key(c, suffix) THEN values ELSE t.col[k]]]

\* Series.diff()
diff(s) == Fix([i \in 1..Len(s) |-> IF i = 1 THEN NaN ELSE RSub(s[i], s[i - 1])])

RECURSIVE SumInts(_, _)
SumInts(s, k) == IF k = 0 THEN 0 ELSE s[k] + SumInts(s, k - 1)
\* Series.sum() of an integer column
sum(s) == SumInts(s, Len(s))

(***************************************************************************)
(* NonStandardEvents                                                       *)
(***************************************************************************)
AUTO == "auto-detected"

\* _select_columns: the candidates that are columns of the table, in candidate order
columns_to_check(possible, t) ==
    SelectSeq(possible, LAMBDA c : HasCol(t, c, RAW))

\* _select_columns: its error, "none" when it returns
\* (variant for C5: the empty selection is not rejected)
select_columns_error_never(possible, t) ==
    IF possible = None THEN "TypeError" ELSE "none"
select_columns_error(possible, t) ==
    IF possible = None THEN "TypeError"
    ELSE IF columns_to_check(possible[1], t) = <<>> THEN "ValueError"
    ELSE "none"

\* (TIMESTAMP >= start) & (TIMESTAMP <= stop)
\* (variant for C1: the stop instant is excluded)
manual_nse_mask_strict_stop(ts, event) ==
    Fix([i \in 1..Len(ts) |-> ts[i] >= event.start /\ ts[i] < event.stop])
manual_nse_mask(ts, event) ==
    Fix([i \in 1..Len(ts) |-> ts[i] >= event.start /\ ts[i] <= event.stop])

\* one iteration of the manual loop on the pair of columns [nse, type]
\* (variant for C25: the flag is set and the type is left as it was)
apply_manual_event_flag_only(ts, st, event) ==
    [nse |-> Fix([i \in 1..Len(ts) |->
                    IF manual_nse_mask(ts, event)[i] THEN 1 ELSE st.nse[i]]),
     type |-> st.type]
apply_manual_event(ts, st, event) ==
    LET mask == manual_nse_mask(ts, event)
        \* .loc[mask, C_NSE] = 1
        nse1 == Fix([i \in 1..Len(ts) |-> IF mask[i] THEN 1 ELSE st.nse[i]])
        \* .loc[mask & C_NSE_Type.isna(), C_NSE_Type] = event_type
        type1 == Fix([i \in 1..Len(ts) |->
                    IF mask[i] /\ st.type[i] = None THEN <<event.type>> ELSE st.type[i]])
        \* .loc[mask & ~C_NSE_Type.isna(), C_NSE_Type] += ', ' + event_type
        \* (the mask is evaluated after the assignment above)
        type2 == Fix([i \in 1..Len(ts) |->
                    IF mask[i] /\ type1[i] # None THEN Append(type1[i], event.type)
                    ELSE type1[i]])
    IN  [nse |-> nse1, type |-> type2]

RECURSIVE manual_pass(_, _, _, _)
\* for _, row in manual_nse_df.iterrows(): events 1..k applied in order
manual_pass(ts, st, events, k) ==
    IF k = 0 THEN st
    ELSE LET before == manual_pass(ts, st, events, k - 1)
         IN  apply_manual_event(ts, before, events[k])

\* (C_deltaMVV > threshold) & (C_NSE == 0)
\* (variant for C2: rows already flagged are not excluded)
auto_detect_mask_no_guard(delta, nse, thr) ==
    Fix([i \in 1..Len(delta) |-> RGt(delta[i], thr)])
\* (variant for C3: >= in place of >)
auto_detect_mask_ge(delta, nse, thr) ==
    Fix([i \in 1..Len(delta) |-> RLe(thr, delta[i]) /\ nse[i] = 0])
auto_detect_mask(delta, nse, thr) ==
    Fix([i \in 1..Len(delta) |-> RGt(delta[i], thr) /\ nse[i] = 0])

\* NSEcount[column] = df[C_NSE].sum()
\* (variant for C4: the rows are counted, not the flags)
nse_count_rows(nse) == Len(nse)
nse_count(nse) == sum(nse)

\* the body of the loop of detect_nse for one column
detect_column(st, column, manual, thr) ==
    LET t == st.df
        n == NRows(t)
        delta == diff(Col(t, column, RAW))
        init == [nse |-> Fix([i \in 1..n |-> 0]), type |-> Fix([i \in 1..n |-> None])]
        man == IF manual = None THEN init
               ELSE manual_pass(t.ts, init, manual[1], Len(manual[1]))
        auto == auto_detect_mask(delta, man.nse, thr)
        nse == Fix([i \in 1..n |-> IF auto[i] THEN 1 ELSE man.nse[i]])
        type == Fix([i \in 1..n |-> IF auto[i] THEN <<AUTO>> ELSE man.type[i]])
        t1 == SetCol(t, column, "_deltaMVV", delta)
        t2 == SetCol(t1, column, "_NSE", nse)
        t3 == SetCol(t2, column, "_NSE_Type", type)
    IN  [df |-> t3,
         count |-> [c \in (DOMAIN st.count) \cup {column} |->
                      IF c = column THEN nse_count(nse) ELSE st.count[c]]]

RECURSIVE detect_columns(_, _, _, _, _)
\* for column in self.columns: columns 1..k processed in order
detect_columns(st, cols, k, manual, thr) ==
    IF k = 0 THEN st
    ELSE detect_column(detect_columns(st, cols, k - 1, manual, thr), cols[k], manual, thr)

\* detect_nse: [err, df, columns, count]
detect_nse(t, possible, cols0, count0, manual, thr) ==
    LET err == select_columns_error(possible, t)
    IN  IF err # "none"
        THEN [err |-> err, df |-> t, columns |-> cols0, count |-> count0]
        ELSE LET cols == columns_to_check(possible[1], t)
                 out == detect_columns([df |-> t, count |-> count0], cols, Len(cols),
                                       manual, thr)
             IN  [err |-> "none", df |-> out.df, columns |-> Some(cols),
                  count |-> out.count]

(***************************************************************************)
(* WaterBalance                                                            *)
(***************************************************************************)
\* Series.where(cond): the cells where cond is false become missing
\* (variant for C18: the cells where cond is true become missing)
where_inverted(s, cond) == Fix([i \in 1..Len(s) |-> IF cond[i] THEN NaN ELSE s[i]])
where(s, cond) == Fix([i \in 1..Len(s) |-> IF cond[i] THEN s[i] ELSE NaN])

ValidBefore(s, i) == {k \in 1..(i - 1) : ~IsNaN(s[k])}
ValidAfter(s, i) == {k \in (i + 1)..Len(s) : ~IsNaN(s[k])}
SetMax(S) == CHOOSE x \in S : \A y \in S : y <= x
SetMin(S) == CHOOSE x \in S : \A y \in S : x <= y

\* the value on the line through (a, va) and (b, vb) at position p
\* (variant for C8: the position is not taken relative to a)
line_at_from_origin(a, va, b, vb, p) ==
    RAdd(va, RMul(RDivInt(RSub(vb, va), b - a), Num(p)))
line_at(a, va, b, vb, p) ==
    RAdd(va, RMul(RDivInt(RSub(vb, va), b - a), Num(p - a)))

\* Series.interpolate(method='linear', limit_direction='both'): rows are equally
\* spaced; a missing cell between two valid ones lies on the line through the
\* nearest valid cell on each side; leading and trailing missing cells take the
\* nearest valid value; a series with no valid cell is returned as it is
interpolate_linear_both(s) ==
    Fix([i \in 1..Len(s) |->
        IF ~IsNaN(s[i]) THEN s[i]
        ELSE LET B == ValidBefore(s, i)
                 A == ValidAfter(s, i)
             IN  IF B # {} /\ A # {}
                 THEN line_at(SetMax(B), s[SetMax(B)], SetMin(A), s[SetMin(A)], i)
                 ELSE IF B # {} THEN s[SetMax(B)]
                 ELSE IF A # {} THEN s[SetMin(A)]
                 ELSE NaN])

\* Series.fillna(method='ffill')
ffill(s) == Fix([i \in 1..Len(s) |->
               IF ~IsNaN(s[i]) \/ ValidBefore(s, i) = {} THEN s[i]
               ELSE s[SetMax(ValidBefore(s, i))]])
\* Series.fillna(method='bfill')
bfill(s) == Fix([i \in 1..Len(s) |->
               IF ~IsNaN(s[i]) \/ ValidAfter(s, i) = {} THEN s[i]
               ELSE s[SetMin(ValidAfter(s, i))]])

\* df[column] * custom_calibration_factor * -1
to_delta_mm(delta, factor) ==
    Fix([i \in 1..Len(delta) |-> RMul(RMul(delta[i], factor), Num(-1))])

\* _interpolate_nse_eta: the table with C_ETa_Raw rewritten where C_NSE == 1
interpolate_nse_eta(t, c) ==
    IF ~HasCol(t, c, "_NSE") THEN t
    ELSE LET nse_mask == Fix([i \in Rows(t) |-> Col(t, c, "_NSE")[i] = 1])
             keep == Fix([i \in Rows(t) |-> ~nse_mask[i]])
             masked == where(Col(t, c, "_deltaMM"), keep)
             interpolated == interpolate_linear_both(masked)
             forward == ffill(interpolated)
         IN  IF \A i \in Rows(t) : ~nse_mask[i] THEN t
             ELSE SetCol(t, c, "_ETa_Raw", bfill(forward))

\* Series.pct_change() * 100 compared with the threshold, on the padded series:
\* |b / a - 1| * 100 > threshold_percent in float arithmetic (x / 0 is infinite
\* for x # 0 and missing for x = 0)
threshold_percent == 70
pct_exceeds(a, b) ==
    IF IsNaN(a) \/ IsNaN(b) THEN FALSE
    ELSE IF a = Zero THEN b # Zero
    ELSE RGt(RMul(RAbs(RSub(b, a)), Num(100)), RMul(Num(threshold_percent), RAbs(a)))

noisy_mask_percent_diff(v) ==
    LET padded == ffill(v)
    IN  Fix([i \in 1..Len(v) |-> i > 1 /\ pct_exceeds(padded[i - 1], padded[i])])

noisy_mask_negative(v) == Fix([i \in 1..Len(v) |-> RLt(v[i], Zero)])

RECURSIVE SumRange(_, _, _, _)
\* the sum of the cells lo..hi of v that are in R and hold a value (the range is
\* halved, so that a column of n cells nests log n deep)
SumRange(v, R, lo, hi) ==
    IF lo > hi THEN Zero
    ELSE IF lo = hi THEN (IF lo \in R /\ ~IsNaN(v[lo]) THEN v[lo] ELSE Zero)
    ELSE RAdd(SumRange(v, R, lo, (lo + hi) \div 2),
              SumRange(v, R, (lo + hi) \div 2 + 1, hi))
\* the sum of the first k cells, missing cells skipped
SumValid(v, k) == SumRange(v, 1..k, 1, k)
CountValid(v) == Cardinality({k \in 1..Len(v) : ~IsNaN(v[k])})
\* Series.mean(): missing cells skipped, missing when no cell is valid
mean(v) == IF CountValid(v) = 0 THEN NaN ELSE RDivInt(SumValid(v, Len(v)), CountValid(v))
RSq(x) == RMul(x, x)
\* the square of Series.std() (ddof = 1): missing with fewer than two valid cells
variance(v) ==
    IF CountValid(v) < 2 THEN NaN
    ELSE LET mean_eta == mean(v)
             squares == Fix([k \in 1..Len(v) |-> RSq(RSub(v[k], mean_eta))])
         IN  RDivInt(SumValid(squares, Len(v)), CountValid(v) - 1)
\* (v < mean - 3 std) | (v > mean + 3 std), i.e. (v - mean)^2 > 9 std^2
noisy_mask_std_dev(v) ==
    LET mean_eta == mean(v)
        nine_var == RMul(Num(9), variance(v))
    IN  Fix([i \in 1..Len(v) |-> RGt(RSq(RSub(v[i], mean_eta)), nine_var)])

noisy_mask_nse(t, c) ==
    Fix([i \in Rows(t) |-> IF HasCol(t, c, "_NSE") THEN Col(t, c, "_NSE")[i] = 1 ELSE FALSE])

\* (variant for C21: the NSE flags are left out of the mask)
noisy_mask_without_nse(t, c, v) ==
    LET percent_diff == noisy_mask_percent_diff(v)
        negative == noisy_mask_negative(v)
        std_dev == noisy_mask_std_dev(v)
    IN  Fix([i \in Rows(t) |-> percent_diff[i] \/ negative[i] \/ std_dev[i]])
noisy_mask(t, c, v) ==
    LET percent_diff == noisy_mask_percent_diff(v)
        negative == noisy_mask_negative(v)
        std_dev == noisy_mask_std_dev(v)
        nse == noisy_mask_nse(t, c)
    IN  Fix([i \in Rows(t) |-> percent_diff[i] \/ negative[i] \/ std_dev[i] \/ nse[i]])

\* the rows the two while loops skip: noisy_mask or eta_values <= 0
skipped(noisy, v, k) == noisy[k] \/ RLe(v[k], Zero)

\* one iteration i of the for loop of _interpolate_noisy_eta on the C_ETa column
noisy_step(eta, noisy, v, i) ==
    IF ~noisy[i] THEN eta
    ELSE LET n == Len(v)
             B == {k \in 1..(i - 1) : ~skipped(noisy, v, k)}
             A == {k \in (i + 1)..n : ~skipped(noisy, v, k)}
         IN  IF B = {} \/ A = {} THEN eta
             ELSE LET start_idx == SetMax(B)
                      end_idx == SetMin(A)
                  IN  Fix([idx \in 1..n |->
                         IF start_idx < idx /\ idx < end_idx
                         THEN line_at(start_idx, v[start_idx], end_idx, v[end_idx], idx)
                         ELSE eta[idx]])

RECURSIVE noisy_loop(_, _, _, _)
\* for i in range(len(df)): iterations 1..k in order
noisy_loop(eta, noisy, v, k) ==
    IF k = 0 THEN eta
    ELSE LET before == noisy_loop(eta, noisy, v, k - 1)
         IN  noisy_step(before, noisy, v, k)

\* _interpolate_noisy_eta: adds C_Noisy_Flag and rewrites C_ETa
\* (variant for C29: the noise flags are stored in C_NSE)
interpolate_noisy_eta_flags_nse(t, c) ==
    LET eta_values == Col(t, c, "_ETa_Raw")
        noisy == noisy_mask(t, c, eta_values)
        t1 == SetCol(SetCol(t, c, "_Noisy_Flag", Fix([i \in Rows(t) |-> 0])), c, "_NSE",
                     Fix([i \in Rows(t) |-> IF noisy[i] THEN 1 ELSE 0]))
        looped == noisy_loop(eta_values, noisy, eta_values, NRows(t))
        forward == ffill(looped)
    IN  SetCol(t1, c, "_ETa", bfill(forward))
interpolate_noisy_eta(t, c) ==
    LET eta_values == Col(t, c, "_ETa_Raw")
        noisy == noisy_mask(t, c, eta_values)
        t1 == SetCol(t, c, "_Noisy_Flag",
                     Fix([i \in Rows(t) |-> IF noisy[i] THEN 1 ELSE 0]))
        looped == noisy_loop(eta_values, noisy, eta_values, NRows(t))
        forward == ffill(looped)
    IN  SetCol(t1, c, "_ETa", bfill(forward))

\* Series.cumsum(): missing cells are skipped and stay missing
cumsum(s) == Fix([i \in 1..Len(s) |->
                IF IsNaN(s[i]) THEN NaN ELSE SumValid(s, i)])

\* "_ETa" in column and "_Cumulative_ETa" not in column, on the suffixes of the model
is_eta_suffix(suffix) == suffix \in {"_ETa", "_ETa_Raw"}
\* column.replace("_ETa", "_Cumulative_ETa")
cumulative_suffix(suffix) == IF suffix = "_ETa" THEN "_Cumulative_ETa"
                             ELSE "_Cumulative_ETa_Raw"
\* the column that _calculate_cumulative_eta sums into the cumulative column
\* (variant for C7: the raw column is summed)
cumulative_source_raw(suffix) == "_ETa_Raw"
cumulative_source(suffix) == suffix

RECURSIVE cumulative_over(_, _)
cumulative_over(t, keys) ==
    IF keys = {} THEN t
    ELSE LET k == CHOOSE x \in keys : TRUE
         IN  cumulative_over(
                 SetCol(t, k[1], cumulative_suffix(k[2]),
                        cumsum(Col(t, k[1], cumulative_source(k[2])))),
                 keys \ {k})

\* _calculate_cumulative_eta
calculate_cumulative_eta(t) ==
    cumulative_over(t, {k \in DOMAIN t.col : is_eta_suffix(k[2])})

\* the body of the loop of calculate_eta for the column C_deltaMVV
eta_column(t, c, factor) ==
    LET t1 == SetCol(t, c, "_deltaMM", to_delta_mm(Col(t, c, "_deltaMVV"), factor))
        t2 == SetCol(t1, c, "_ETa_Raw", Col(t1, c, "_deltaMM"))
        t3 == interpolate_nse_eta(t2, c)
        t4 == SetCol(t3, c, "_ETa", Col(t3, c, "_ETa_Raw"))
    IN  interpolate_noisy_eta(t4, c)

RECURSIVE eta_columns(_, _, _)
\* for column in df.columns: if "_deltaMVV" in column (each channel's columns
\* depend on that channel's columns alone, so the order is immaterial)
eta_columns(t, chans, factor) ==
    IF chans = {} THEN t
    ELSE LET c == CHOOSE x \in chans : TRUE
         IN  eta_columns(eta_column(t, c, factor), chans \ {c}, factor)

\* the channels C for which the table has a column C_deltaMVV
delta_channels(t) == {k[1] : k \in {x \in DOMAIN t.col : x[2] = "_deltaMVV"}}

\* (variant for C6: the factor is checked after the depth columns are created)
RECURSIVE placeholder_columns(_, _)
placeholder_columns(t, chans) ==
    IF chans = {} THEN t
    ELSE LET c == CHOOSE x \in chans : TRUE
         IN  placeholder_columns(SetCol(t, c, "_deltaMM", Fix([i \in Rows(t) |-> NaN])),
                                 chans \ {c})

\* calculate_eta: [err, df]
calculate_eta_check_late(t, factor) ==
    IF factor = None
    THEN [err |-> "ValueError", df |-> placeholder_columns(t, delta_channels(t))]
    ELSE [err |-> "none",
          df |-> calculate_cumulative_eta(eta_columns(t, delta_channels(t), factor))]
calculate_eta(t, factor) ==
    IF factor = None THEN [err |-> "ValueError", df |-> t]
    ELSE [err |-> "none",
          df |-> calculate_cumulative_eta(eta_columns(t, delta_channels(t), factor))]

(***************************************************************************)
(* The pipeline: inputs, initial states and calls                          *)
(***************************************************************************)
\* the candidate channels run_analysis passes to set_possible_columns
CANDIDATES == <<"SM50_1_Avg", "SM50_2_Avg", "SM25_1_Avg", "SM25_2_Avg">>
PossibleChoices == {Some(CANDIDATES), Some(<<"SM50_2_Avg", "SM25_2_Avg">>)}

\* a regularly sampled table: TIMESTAMP of row i is i sampling intervals
Stamps(n) == [i \in 1..n |-> i]
Signal == {Num(10), Num(15), Num(16)}
SecondSignal(n) == [i \in 1..n |-> IF i % 2 = 1 THEN Num(10) ELSE Num(16)]

OneChannel(values) ==
    [ts |-> Stamps(Len(values)),
     col |-> [k \in {Key("SM50_1_Avg", RAW)} |-> values]]
TwoChannels(values) ==
    [ts |-> Stamps(Len(values)),
     col |-> [k \in {Key("SM50_1_Avg", RAW), Key("SM25_1_Avg", RAW)} |->
                IF k[1] = "SM50_1_Avg" THEN values ELSE SecondSignal(Len(values))]]

\* the scenario of the specification, and tables with a missing sample
ScenarioValues == <<Num(10), Num(10), Num(10), Num(50), Num(10), Num(10)>>
MissingValues == {<<Num(16), NaN, Num(15), Num(10)>>, <<NaN, Num(16), Num(10)>>}

\* a steady loss of 10 per step that ends with a loss of 16: the last step is
\* within 70 % of the one before it and more than 3 standard deviations from the
\* mean of the steps
\* a loss of 5, two steps without loss, then two losses of 5
ZeroRunValues == <<Num(20), Num(15), Num(15), Num(15), Num(10), Num(5)>>
OutlierValues == [i \in 1..12 |-> IF i < 12 THEN Num(210 - 10 * i) ELSE Num(84)]

Tables ==
    {OneChannel(v) : v \in UNION {[1..n -> Signal] : n \in 1..MaxRows}}
    \cup {TwoChannels(v) : v \in [1..3 -> Signal]}
    \cup {OneChannel(ScenarioValues)}
    \cup {OneChannel(v) : v \in MissingValues}
    \cup {OneChannel(OutlierValues), OneChannel(ZeroRunValues)}

Event(start, stop, type) == [start |-> start, stop |-> stop, type |-> type]
\* the manual event tables load_manual_nse may read
ManualSets ==
    {<<>>,
     <<Event(2, 3, "irrigation")>>,
     <<Event(3, 3, "rain")>>,
     <<Event(1, 2, "irrigation"), Event(2, 4, "rain")>>}

Thresholds == {Num(5)}
\* the factors run_analysis may pass on: alpha / beta of either sign
Factors == {Num(2), Rat(3, 2), Num(-4)}

InitPipe ==
    /\ df \in Tables
    /\ possible_columns \in PossibleChoices
    /\ columns = None
    /\ threshold \in Thresholds
    /\ NSEcount = <<>>
    /\ manual_nse_df = None
    /\ wb_factor = None
    /\ last = [op |-> "init", err |-> "none"]

\* a pipeline that is not run: the state the other specifications keep it in
IdlePipe ==
    /\ df = OneChannel(<<Num(10)>>)
    /\ possible_columns = Some(CANDIDATES)
    /\ columns = None
    /\ threshold \in Thresholds
    /\ NSEcount = <<>>
    /\ manual_nse_df = None
    /\ wb_factor = None
    /\ last = [op |-> "init", err |-> "none"]

\* load_manual_nse of a well-formed file; as in run_analysis it is called once,
\* before any other call on the pipeline
LoadManualNse(m) ==
    /\ last.op = "init"
    /\ manual_nse_df' = Some(m)
    /\ last' = [op |-> "load_manual_nse", err |-> "none"]
    /\ UNCHANGED <<df, possible_columns, columns, threshold, NSEcount, wb_factor>>

\* the columns load_manual_nse reads from the file
\* the columns read_csv is told to parse as dates
DateColumns == {"Start Datetime", "Stop Datetime"}

\* a manual-events file is the rows it holds and the required columns it lacks:
\* well-formed files, files without a date column (read_csv raises on its
\* parse_dates argument) and files without the Notes column (the last astype
\* raises)
ManualFiles ==
    [events : ManualSets,
     missing : {{}, {"Start Datetime"}, {"Stop Datetime"}, {"Notes"}}]

\* load_manual_nse(file_path) on an object whose manual_nse_df is current:
\* [err, manual_nse_df].  Every exception of the body is caught and printed, so
\* the call always returns; manual_nse_df is assigned as soon as read_csv
\* returns, before the columns are coerced.
load_manual_nse(current, file) ==
    IF file.missing \cap DateColumns # {}
    THEN [err |-> "none", manual_nse_df |-> current]
    ELSE [err |-> "none", manual_nse_df |-> Some(file.events)]

\* load_manual_nse of any file; as in run_analysis it is called once, before
\* any other call on the pipeline
LoadManualNseFile(file) ==
    /\ last.op = "init"
    /\ manual_nse_df' = load_manual_nse(manual_nse_df, file).manual_nse_df
    /\ last' = [op |-> "load_manual_nse",
                err |-> load_manual_nse(manual_nse_df, file).err, file |-> file]
    /\ UNCHANGED <<df, possible_columns, columns, threshold, NSEcount, wb_factor>>

DetectNse ==
    LET r == detect_nse(df, possible_columns, columns, NSEcount, manual_nse_df, threshold)
    IN  /\ df' = r.df
        /\ columns' = r.columns
        /\ NSEcount' = r.count
        /\ last' = [op |-> "detect_nse", err |-> r.err]
        /\ UNCHANGED <<possible_columns, threshold, manual_nse_df, wb_factor>>

\* the tables and the candidate lists handed to one detector in turn
NseTables ==
    {OneChannel(v) : v \in [1..2 -> Signal]} \cup {TwoChannels(v) : v \in [1..3 -> Signal]}
NsePossibleChoices ==
    PossibleChoices \cup {Some(<<"SM50_1_Avg">>), Some(<<"SM25_1_Avg">>)}

\* NonStandardEvents(dataframe): the detector as its constructor leaves it
InitNse ==
    /\ df \in NseTables
    /\ possible_columns = None
    /\ columns = None
    /\ threshold \in Thresholds
    /\ NSEcount = <<>>
    /\ manual_nse_df = None
    /\ wb_factor = None
    /\ last = [op |-> "init", err |-> "none"]

SetDataframe(dataframe) ==
    /\ df' = dataframe
    /\ last' = [op |-> "set_dataframe", err |-> "none"]
    /\ UNCHANGED <<possible_columns, columns, threshold, NSEcount, manual_nse_df, wb_factor>>

SetPossibleColumns(possible) ==
    /\ possible_columns' = possible
    /\ last' = [op |-> "set_possible_columns", err |-> "none"]
    /\ UNCHANGED <<df, columns, threshold, NSEcount, manual_nse_df, wb_factor>>

SetCustomCalibrationFactor(f) ==
    /\ wb_factor = None
    /\ wb_factor' = f
    /\ last' = [op |-> "set_custom_calibration_factor", err |-> "none"]
    /\ UNCHANGED <<df, possible_columns, columns, threshold, NSEcount, manual_nse_df>>

CalculateEta ==
    LET r == calculate_eta(df, wb_factor)
    IN  /\ df' = r.df
        /\ last' = [op |-> "calculate_eta", err |-> r.err]
        /\ UNCHANGED <<possible_columns, columns, threshold, NSEcount, manual_nse_df,
                       wb_factor>>

(***************************************************************************)
(* LoadCellCalibration and its use in run_analysis                         *)
(***************************************************************************)
\* default_calibrations (mm/mV/V): 157.43 and 76.2
default_calibrations ==
    [k \in {"SL", "LL"} |-> IF k = "SL" THEN Rat(15743, 100) ELSE Rat(762, 10)]

\* 1 / x in float arithmetic, for x # 0
RInv(x) == Rat(x[2], x[1])

\* calculate_calibration_factor on the object c: [err, value, obj]
calculate_calibration_factor(c) ==
    IF c.alpha = None \/ c.beta = None
    THEN [err |-> "ValueError", value |-> None, obj |-> c]
    ELSE IF c.beta = Zero
    THEN [err |-> "ZeroDivisionError", value |-> None, obj |-> c]
    ELSE LET f == RMul(RMul(RMul(c.alpha, Rat(1, 1000)), RInv(c.beta)), Num(1000))
         IN  [err |-> "none", value |-> f,
              obj |-> [c EXCEPT !.custom_calibration_factor = f]]

\* (variant for C24: a computed custom factor takes precedence over the preset)
get_calibration_factor_custom_first(c, lysimeter_type) ==
    IF c.custom_calibration_factor # None
    THEN [err |-> "none", value |-> c.custom_calibration_factor]
    ELSE IF lysimeter_type # None /\ lysimeter_type[1] \in DOMAIN default_calibrations
    THEN [err |-> "none", value |-> default_calibrations[lysimeter_type[1]]]
    ELSE [err |-> "ValueError", value |-> None]
\* get_calibration_factor(lysimeter_type) on the object c: [err, value]
get_calibration_factor(c, lysimeter_type) ==
    IF lysimeter_type # None /\ lysimeter_type[1] \in DOMAIN default_calibrations
    THEN [err |-> "none", value |-> default_calibrations[lysimeter_type[1]]]
    ELSE IF c.custom_calibration_factor # None
    THEN [err |-> "none", value |-> c.custom_calibration_factor]
    ELSE [err |-> "ValueError", value |-> None]

\* LoadCellCalibration.__init__
NewCalibration == [alpha |-> None, beta |-> None, custom_calibration_factor |-> None]

\* the attributes __init__ and the methods of LoadCellCalibration assign
CalibrationAttributes == {"alpha", "beta", "custom_calibration_factor", "default_calibrations"}

\* run_analysis, "Set up Load Cell Calibration" up to the argument of
\* set_custom_calibration_factor: [err, value, obj]
run_analysis_calibration(lysimeter_type, custom_alpha, custom_beta) ==
    LET custom_values_provided == custom_alpha # None /\ custom_beta # None
        obj == IF custom_values_provided
               THEN [NewCalibration EXCEPT !.alpha = custom_alpha, !.beta = custom_beta]
               ELSE NewCalibration
        got == IF custom_values_provided THEN [err |-> "none", value |-> None]
               ELSE get_calibration_factor(obj, lysimeter_type)
    IN  IF got.err # "none" THEN [err |-> got.err, value |-> None, obj |-> obj]
        \* calibration.calibration_factor: the value get_calibration_factor returned
        \* was discarded, and the object has no such attribute
        ELSE IF "calibration_factor" \in CalibrationAttributes
        THEN [err |-> "none", value |-> obj.custom_calibration_factor, obj |-> obj]
        ELSE [err |-> "AttributeError", value |-> None, obj |-> obj]

Alphas == {Num(3), Rat(5, 2), Num(-2)}
Betas == {Num(2), Rat(1, 2), Zero}
LysimeterTypes == {None, Some("SL"), Some("LL"), Some("XX")}

InitCal ==
    /\ cal = NewCalibration
    /\ cal_last = [op |-> "init", args |-> <<>>, err |-> "none", value |-> None]

SetAlpha(a) ==
    /\ cal' = [cal EXCEPT !.alpha = a]
    /\ cal_last' = [op |-> "set_alpha", args |-> <<a>>, err |-> "none", value |-> None]

SetBeta(b) ==
    /\ cal' = [cal EXCEPT !.beta = b]
    /\ cal_last' = [op |-> "set_beta", args |-> <<b>>, err |-> "none", value |-> None]

CalculateCalibrationFactor ==
    LET r == calculate_calibration_factor(cal)
    IN  /\ cal' = r.obj
        /\ cal_last' = [op |-> "calculate_calibration_factor", args |-> <<>>,
                        err |-> r.err, value |-> r.value]

GetCalibrationFactor(lysimeter_type) ==
    LET r == get_calibration_factor(cal, lysimeter_type)
    IN  /\ cal' = cal
        /\ cal_last' = [op |-> "get_calibration_factor", args |-> <<lysimeter_type>>,
                        err |-> r.err, value |-> r.value]

RunAnalysisCalibration(lysimeter_type, custom_alpha, custom_beta) ==
    LET r == run_analysis_calibration(lysimeter_type, custom_alpha, custom_beta)
    IN  /\ cal' = r.obj
        /\ cal_last' = [op |-> "run_analysis",
                        args |-> <<lysimeter_type, custom_alpha, custom_beta>>,
                        err |-> r.err, value |-> r.value]

(***************************************************************************)
(* utils.convert_to_minutes and the frequency check of utils.aggregate_data *)
(***************************************************************************)
\* a frequency string is the sequence of its characters
Digits == {"0", "1", "2", "3", "4", "5", "6", "7", "8", "9"}
DigitValue(ch) ==
    CASE ch = "0" -> 0 [] ch = "1" -> 1 [] ch = "2" -> 2 [] ch = "3" -> 3
      [] ch = "4" -> 4 [] ch = "5" -> 5 [] ch = "6" -> 6 [] ch = "7" -> 7
      [] ch = "8" -> 8 [] ch = "9" -> 9
\* str.isdigit and str.isalpha on the characters of the model
isdigit(ch) == ch \in Digits
isalpha(ch) == ch \notin Digits /\ ch # "-"

RECURSIVE int(_, _)
\* int(numeric_part): the decimal value of the first k digits
int(digits, k) == IF k = 0 THEN 0 ELSE 10 * int(digits, k - 1) + DigitValue(digits[k])

\* time_units.get(unit_part, 0)
time_units(unit_part) ==
    CASE unit_part = <<"T">> -> 1
      [] unit_part = <<"H">> -> 60
      [] unit_part = <<"D">> -> 1440
      [] unit_part = <<"W">> -> 10080
      [] unit_part = <<"M">> -> 43200
      [] unit_part = <<"Y">> -> 525600
      [] OTHER -> 0

convert_to_minutes(time_string) ==
    LET numeric_part == SelectSeq(time_string, isdigit)
        unit_part == SelectSeq(time_string, isalpha)
        number == IF numeric_part = <<>> THEN 1 ELSE int(numeric_part, Len(numeric_part))
    IN  number * time_units(unit_part)

\* fallback_timescale_dict
fallback_keys == {<<"M","i","n","5">>, <<"M","i","n","1","5">>,
                  <<"M","i","n","6","0">>, <<"D","a","i","l","y">>}
fallback_timescale_dict(label) ==
    CASE label = <<"M","i","n","5">> -> <<"5","T">>
      [] label = <<"M","i","n","1","5">> -> <<"1","5","T">>
      [] label = <<"M","i","n","6","0">> -> <<"1","H">>
      [] label = <<"D","a","i","l","y">> -> <<"1","D">>

\* how pandas reads an offset alias (resample(frequency), infer_freq): the length
\* in seconds of n units, 0 when the string is no alias pandas accepts
pandas_unit_seconds(unit_part) ==
    CASE unit_part \in {<<"S">>, <<"s">>} -> 1
      [] unit_part \in {<<"T">>, <<"m","i","n">>} -> 60
      [] unit_part \in {<<"H">>, <<"h">>} -> 3600
      [] unit_part = <<"D">> -> 86400
      [] unit_part = <<"W">> -> 604800
      [] OTHER -> 0
pandas_seconds(alias) ==
    LET numeric_part == SelectSeq(alias, isdigit)
        unit_part == SelectSeq(alias, isalpha)
        number == IF numeric_part = <<>> THEN 1 ELSE int(numeric_part, Len(numeric_part))
    IN  number * pandas_unit_seconds(unit_part)

\* aggregate_data up to the resampling: [err, detected, frequency]
aggregate_check(inferred, input_timescale, frequency0) ==
    LET detected_timescale ==
            IF inferred # None THEN inferred
            ELSE IF input_timescale # None /\ input_timescale[1] \in fallback_keys
            THEN Some(fallback_timescale_dict(input_timescale[1]))
            ELSE input_timescale
        frequency == IF frequency0 \in fallback_keys
                     THEN fallback_timescale_dict(frequency0) ELSE frequency0
    IN  IF detected_timescale = None
        THEN [err |-> "ValueError: could not infer", detected |-> None,
              frequency |-> frequency0]
        ELSE IF convert_to_minutes(detected_timescale[1]) > convert_to_minutes(frequency)
        THEN [err |-> "ValueError: smaller timescale", detected |-> detected_timescale,
              frequency |-> frequency]
        \* df.resample(frequency) rejects a string that is no offset alias
        ELSE IF pandas_seconds(frequency) = 0
        THEN [err |-> "ValueError: invalid frequency", detected |-> detected_timescale,
              frequency |-> frequency]
        ELSE [err |-> "none", detected |-> detected_timescale, frequency |-> frequency]

\* A table given to the aggregator carries its sampling interval in seconds:
\* TIMESTAMP of row i is ts[i] * interval seconds after time 0.
Sampled(t, interval) == [ts |-> t.ts, col |-> t.col, interval |-> interval]

\* pandas.infer_freq on the TIMESTAMP column: it raises with fewer than three
\* timestamps, gives None when the rows are not equally spaced, and the alias of
\* the interval otherwise
Regular(t) == \A i \in 2..NRows(t) : t.ts[i] - t.ts[i - 1] = 1
infer_freq_error(t) == IF NRows(t) < 3 THEN "ValueError: need at least 3 dates" ELSE "none"

\* df[col].dtype of the columns of the model's tables: C_NSE_Type is created from
\* None and holds text (object), as do the text columns of the input; C_NSE and
\* C_Noisy_Flag hold integers and every other column floats
TextColumns == {"Station"}
is_object_dtype(key) == key[2] = "_NSE_Type" \/ key[1] \in TextColumns
is_numeric_dtype(key) == ~is_object_dtype(key)
is_int_dtype(key) == key[2] \in {"_NSE", "_Noisy_Flag"}

\* the cells of a numeric column as floats
as_float(t, key) ==
    IF is_int_dtype(key) THEN Fix([i \in Rows(t) |-> Num(t.col[key][i])])
    ELSE t.col[key]

\* 'marker' in col, on the column names of the model (no channel name contains
\* a marker)
name_has_NSE(key) == key[2] \in {"_NSE", "_NSE_Type"}
name_has_NSE_Type(key) == key[2] = "_NSE_Type"
\* (variant for C12: '_deltaMVV' is left out of the keywords)
name_has_sum_keyword_no_mvv(key) ==
    key[2] \in {"_ETa", "_ETa_Raw", "_Cumulative_ETa", "_Cumulative_ETa_Raw", "_deltaMM"}
\* any(keyword in col for keyword in ['_ETa', '_deltaMM', '_deltaMVV'])
name_has_sum_keyword(key) ==
    key[2] \in {"_ETa", "_ETa_Raw", "_Cumulative_ETa", "_Cumulative_ETa_Raw",
                "_deltaMM", "_deltaMVV"}

\* agg_dict[col]: the reducer of a column ("join" is the lambda of C_NSE_Type)
agg_rule(key) ==
    IF name_has_NSE(key) /\ ~is_object_dtype(key) THEN "max"
    ELSE IF name_has_NSE_Type(key) THEN "join"
    ELSE IF is_numeric_dtype(key)
    THEN IF name_has_sum_keyword(key) THEN "sum" ELSE "mean"
    ELSE "first"

\* the order of Python strings on the event labels, and on the cells that are
\* labels joined with ", " (a proper prefix comes first)
label_rank(label) ==
    CASE label = "" -> 0
      [] label = AUTO -> 1
      [] label = "irrigation" -> 2
      [] label = "rain" -> 3
str_less(a, b) ==
    \/ Len(a) < Len(b) /\ SubSeq(b, 1, Len(a)) = a
    \/ \E k \in 1..Len(a) :
          /\ k <= Len(b)
          /\ SubSeq(a, 1, k - 1) = SubSeq(b, 1, k - 1)
          /\ label_rank(a[k]) < label_rank(b[k])

RECURSIVE sorted(_)
\* sorted(set of strings)
sorted(S) ==
    IF S = {} THEN <<>>
    ELSE LET m == CHOOSE x \in S : \A y \in S \ {x} : str_less(x, y)
         IN  <<m>> \o sorted(S \ {m})

RECURSIVE join(_, _)
\* ', '.join(cells[1..k]); the empty string is the single empty label
join(cells, k) ==
    IF Len(cells) = 0 THEN <<"">>
    ELSE IF k = 1 THEN cells[1]
    ELSE join(cells, k - 1) \o cells[k]

\* the rows R of a bucket that hold a value
valid_rows(v, R) == {i \in R : ~IsNaN(v[i])}

\* the reducers of resample(...).agg on the rows R of one bucket
\* (variant for C13: a bucket's total counts its first row only)
reduce_sum_first_row(v, R) ==
    IF valid_rows(v, R) = {} THEN Zero ELSE v[SetMin(valid_rows(v, R))]
\* 'sum': missing cells are skipped, the sum of no cell is 0
reduce_sum(v, R) == SumRange(v, R, 1, Len(v))
\* (variant for C23: the value of the first row of the bucket that holds one)
reduce_max_first_row(v, R) ==
    IF valid_rows(v, R) = {} THEN NaN ELSE v[SetMin(valid_rows(v, R))]
\* 'max': missing when the bucket holds no value
reduce_max(v, R) ==
    LET V == valid_rows(v, R)
    IN  IF V = {} THEN NaN
        ELSE v[CHOOSE i \in V : \A j \in V : RLe(v[j], v[i])]
\* 'mean': missing when the bucket holds no value
reduce_mean(v, R) ==
    LET V == valid_rows(v, R)
    IN  IF V = {} THEN NaN ELSE RDivInt(SumRange(v, V, 1, Len(v)), Cardinality(V))
\* 'first': the first non-null cell, None when there is none
reduce_first(cells, R) ==
    LET V == {i \in R : cells[i] # None}
    IN  IF V = {} THEN None ELSE cells[SetMin(V)]
\* lambda x: ', '.join(sorted(set(x.dropna())))
reduce_join(cells, R) ==
    LET ordered == sorted({cells[i] : i \in {r \in R : cells[r] # None}})
    IN  join(ordered, Len(ordered))

\* the reducer of column key applied to its cells on the rows R of a bucket
reduce(key, cells, R) ==
    CASE agg_rule(key) = "max" -> reduce_max(cells, R)
      [] agg_rule(key) = "sum" -> reduce_sum(cells, R)
      [] agg_rule(key) = "mean" -> reduce_mean(cells, R)
      [] agg_rule(key) = "join" -> reduce_join(cells, R)
      [] agg_rule(key) = "first" -> reduce_first(cells, R)

\* the cells of a column as the reducers see them
column_cells(t, key) == IF is_numeric_dtype(key) THEN as_float(t, key) ELSE t.col[key]

\* df.resample(frequency): the bins of a frequency of fsec seconds.  Time 0 of
\* the model is midnight on a Monday, so that the bins of every frequency of the
\* model (minutes, hours, days, weeks ending on Sunday) are the multiples of
\* fsec; bin number b holds the rows with b * fsec <= time < (b + 1) * fsec
bin_of(t, fsec) == Fix([i \in Rows(t) |-> (t.ts[i] * t.interval) \div fsec])
first_bin(bin) == SetMin(Range(bin))
\* the number of bins from the first row's to the last row's
bin_count(bin) == SetMax(Range(bin)) - SetMin(Range(bin)) + 1
\* the rows of bins lo, lo + 1, ..., lo + n - 1
bin_rows(bin, lo, n) == Fix([j \in 1..n |-> {i \in DOMAIN bin : bin[i] = lo + j - 1}])
\* the TIMESTAMP of a bin, in seconds: its left edge, and for weeks the Sunday
\* that closes it
bin_label(fsec, b) == IF fsec = 604800 THEN b * fsec + 6 * 86400 ELSE b * fsec

\* .agg(agg_dict) on one column: one cell per bin
reduce_column(key, cells, rows) ==
    Fix([j \in 1..Len(rows) |-> reduce(key, cells, rows[j])])

\* .agg(agg_dict).reset_index(): one row per bin, TIMESTAMP in seconds, every
\* column reduced by its rule
\* (variant for C11: only the numeric columns are kept)
resample_bins_numeric_only(t, fsec, lo, rows) ==
    [ts |-> Fix([j \in 1..Len(rows) |-> bin_label(fsec, lo + j - 1)]),
     col |-> [key \in {k \in DOMAIN t.col : is_numeric_dtype(k)} |->
                reduce_column(key, column_cells(t, key), rows)]]
resample_bins(t, fsec, lo, rows) ==
    [ts |-> Fix([j \in 1..Len(rows) |-> bin_label(fsec, lo + j - 1)]),
     col |-> [key \in DOMAIN t.col |-> reduce_column(key, column_cells(t, key), rows)]]

resample_from(t, fsec, bin) ==
    resample_bins(t, fsec, first_bin(bin), bin_rows(bin, first_bin(bin), bin_count(bin)))

\* df.resample(frequency).agg(agg_dict).reset_index()
resample(t, fsec) == resample_from(t, fsec, bin_of(t, fsec))

\* aggregate_data up to the resampling, with the error of infer_freq:
\* [err, detected, frequency]
aggregate_head(t, inferred, input_timescale, frequency0) ==
    IF infer_freq_error(t) # "none"
    THEN [err |-> infer_freq_error(t), detected |-> None, frequency |-> frequency0]
    ELSE aggregate_check(inferred, input_timescale, frequency0)

\* the table aggregate_data returns once the checks have passed
aggregate_resample(t, head) ==
    IF head.err # "none"
    THEN [err |-> head.err, detected |-> head.detected, frequency |-> head.frequency,
          rules |-> None, out |-> None]
    ELSE [err |-> "none", detected |-> head.detected, frequency |-> head.frequency,
          rules |-> [key \in DOMAIN t.col |-> agg_rule(key)],
          out |-> resample(t, pandas_seconds(head.frequency))]

\* aggregate_data: [err, detected, frequency, rules, out]
aggregate_data(t, inferred, input_timescale, frequency0) ==
    aggregate_resample(t, aggregate_head(t, inferred, input_timescale, frequency0))

\* the sampling interval of the data in seconds and what pandas.infer_freq makes
\* of its TIMESTAMP column (the alias of the interval, spelled as the installed
\* pandas spells it, or None when the timestamps are not regular)
NativeCases ==
    {[interval |-> 300, inferred |-> Some(<<"5","T">>)],
     [interval |-> 300, inferred |-> Some(<<"5","m","i","n">>)],
     [interval |-> 900, inferred |-> Some(<<"1","5","T">>)],
     [interval |-> 900, inferred |-> Some(<<"1","5","m","i","n">>)],
     [interval |-> 3600, inferred |-> Some(<<"H">>)],
     [interval |-> 3600, inferred |-> Some(<<"h">>)],
     [interval |-> 86400, inferred |-> Some(<<"D">>)],
     [interval |-> 30, inferred |-> Some(<<"3","0","S">>)],
     [interval |-> 300, inferred |-> None],
     [interval |-> 900, inferred |-> None],
     [interval |-> 1800, inferred |-> None],
     [interval |-> 3600, inferred |-> None],
     [interval |-> 86400, inferred |-> None]}

\* the label of the input timescale (the word in the data file names)
timescale_label(interval) ==
    CASE interval = 300 -> <<"M","i","n","5">>
      [] interval = 900 -> <<"M","i","n","1","5">>
      [] interval = 1800 -> <<"M","i","n","3","0">>
      [] interval = 3600 -> <<"M","i","n","6","0">>
      [] interval = 86400 -> <<"D","a","i","l","y">>
      [] OTHER -> <<"M","i","n","1">>

TargetFrequencies ==
    {<<"5","T">>, <<"1","5","T">>, <<"1","5","m","i","n">>, <<"H">>, <<"1","H">>,
     <<"D">>, <<"1","D">>, <<"W">>, <<"1","0","S">>,
     <<"M","i","n","5">>, <<"M","i","n","1","5">>, <<"M","i","n","6","0">>,
     <<"D","a","i","l","y">>, <<"M","i","n","3","0">>}

\* the tables given to the aggregator
WithStamps(t, ts) == [t EXCEPT !.ts = ts]
WithColumn(t, key, values) ==
    [t EXCEPT !.col = [k \in (DOMAIN t.col) \cup {key} |->
                          IF k = key THEN values ELSE t.col[k]]]

\* one day of 15-minute samples (rows 0..95) whose per-step ETa is 1
SamplesPerDay == 1440 \div 15
DayOfOnes ==
    [ts |-> [i \in 1..SamplesPerDay |-> i - 1],
     col |-> [k \in {Key("SM50_1_Avg", "_ETa")} |-> [i \in 1..SamplesPerDay |-> Num(1)]]]

RegularTables ==
    {OneChannel(<<Num(16), Num(15), Num(10), Num(16)>>),
     OneChannel(<<Num(10), Num(16), NaN, Num(15)>>),
     WithColumn(OneChannel(<<Num(15), Num(10), Num(16), Num(16)>>), Key("Station", RAW),
                <<None, <<"A">>, <<"B">>, None>>),
     OneChannel(<<Num(10), Num(16)>>)}
GappedTables ==
    {WithStamps(OneChannel(<<Num(16), Num(10), Num(16), Num(15)>>), <<1, 2, 5, 6>>)}

AggTables ==
    {Sampled(t, n.interval) : t \in RegularTables,
                              n \in {c \in NativeCases : c.inferred # None}}
    \cup {Sampled(t, n.interval) : t \in GappedTables,
                                   n \in {c \in NativeCases : c.inferred = None}}
    \cup {Sampled(DayOfOnes, 900)}

InitAgg == agg = [called |-> FALSE]

\* what the caller of aggregate_data sees: the inputs and the outcome r
aggregate_call(native, input_timescale, r) ==
    [called |-> TRUE, interval |-> native.interval, inferred |-> native.inferred,
     input_timescale |-> input_timescale, frequency |-> r.frequency,
     detected |-> r.detected, err |-> r.err, returned |-> r.err = "none",
     rules |-> r.rules, out |-> r.out]

\* the number of rows of the table a call would return, 0 when it raises
aggregate_rows(t, head) ==
    IF head.err # "none" THEN 0
    ELSE bin_count(bin_of(t, pandas_seconds(head.frequency)))

\* aggregate_data(df, frequency, input_timescale=...): the call either raises or
\* returns the resampled table; native is the sampling interval of df and what
\* infer_freq makes of its TIMESTAMP column
AggregateData(native, input_timescale, frequency) ==
    /\ native.interval = df.interval
    /\ (native.inferred # None) = Regular(df)
    /\ aggregate_rows(df, aggregate_head(df, native.inferred, input_timescale, frequency))
           <= MaxBins
    /\ agg' = aggregate_call(native, input_timescale,
                  aggregate_data(df, native.inferred, input_timescale, frequency))
    /\ last' = [op |-> "aggregate_data",
                err |-> IF agg'.err = "none" THEN "none" ELSE "ValueError"]
    /\ UNCHANGED <<df, possible_columns, columns, threshold, NSEcount, manual_nse_df,
                   wb_factor>>

(***************************************************************************)
(* run_analysis from the detection on (calibrated_df is its input)         *)
(***************************************************************************)
\* A run ends at a stage, with the error of that stage ("none" at "done") and the
\* files written into output_directory so far: [stage, err, outputs].

\* nse_detector.detect_nse() on calibrated_df, after
\* "if manual_nse_file_path: nse_detector.load_manual_nse(manual_nse_file_path)"
run_detect(t, manual_nse_file, thr) ==
    detect_nse(t, Some(CANDIDATES), None, <<>>,
               IF manual_nse_file = None THEN None
               ELSE load_manual_nse(None, manual_nse_file[1]).manual_nse_df,
               thr)

\* "Generate and export the report" and export_to_csv: add_calibration_info is
\* given calibration.lysimeter_type, an attribute the object does not have
run_report(outputs) ==
    IF "lysimeter_type" \in CalibrationAttributes
    THEN [stage |-> "done", err |-> "none",
          outputs |-> outputs \cup {"run_report.txt", "merged_data.csv"}]
    ELSE [stage |-> "report", err |-> "AttributeError", outputs |-> outputs]

\* "Aggregate data if frequency is specified" and what follows it
run_aggregate(eta_df, native, input_timescale, frequency, outputs) ==
    IF frequency = None THEN run_report(outputs)
    ELSE IF aggregate_head(eta_df, native.inferred, input_timescale, frequency[1]).err
                # "none"
    THEN [stage |-> "aggregate_data",
          err |-> aggregate_head(eta_df, native.inferred, input_timescale,
                                 frequency[1]).err,
          outputs |-> outputs]
    ELSE run_report(outputs)

\* "Calculate Water Balance": calculate_eta, then plot_eta_with_nse and
\* plot_cumulative_eta write the two ETa plots
run_water_balance(eta, native, input_timescale, frequency, outputs) ==
    IF eta.err # "none"
    THEN [stage |-> "calculate_eta", err |-> eta.err, outputs |-> outputs]
    ELSE run_aggregate(eta.df, native, input_timescale, frequency,
                       outputs \cup {"ETa_instance.html", "Cumulative_ETa.html"})

\* "Set up Load Cell Calibration" and what follows it
run_calibration(det, calr, native, input_timescale, frequency, outputs) ==
    IF calr.err # "none"
    THEN [stage |-> "calibration", err |-> calr.err, outputs |-> outputs]
    ELSE run_water_balance(calculate_eta(det.df, calr.value), native, input_timescale,
                           frequency, outputs)

\* run_analysis from "Identify Non-Standard Events": plot_nse writes the NSE
\* plot as soon as detect_nse has returned
run_analysis(t, manual_nse_file, lysimeter_type, custom_alpha, custom_beta, thr, native, input_timescale, frequency) ==
    IF run_detect(t, manual_nse_file, thr).err # "none"
    THEN [stage |-> "detect_nse", err |-> run_detect(t, manual_nse_file, thr).err,
          outputs |-> {}]
    ELSE run_calibration(run_detect(t, manual_nse_file, thr),
                         run_analysis_calibration(lysimeter_type, custom_alpha, custom_beta),
                         native, input_timescale, frequency, {"NSE_plot.html"})

\* calibrated tables sampled every 15 minutes: with candidate channels, and one
\* with none of them
RunTables ==
    {Sampled(t, 900) : t \in RegularTables}
    \cup {Sampled([ts |-> Stamps(3),
                   col |-> [k \in {Key("Batt_V", RAW)} |-> <<Num(10), Num(10), Num(10)>>]],
                  900)}

InitRun ==
    /\ df \in RunTables
    /\ possible_columns = None
    /\ columns = None
    /\ threshold \in Thresholds
    /\ NSEcount = <<>>
    /\ manual_nse_df = None
    /\ wb_factor = None
    /\ last = [op |-> "init", err |-> "none"]

\* one run of run_analysis on the calibrated table df; a stage that the run has
\* not reached leaves its objects as they were
RunAnalysis(manual_nse_file, lysimeter_type, custom_alpha, custom_beta, thr, native, frequency) ==
    LET input_timescale == Some(timescale_label(native.interval))
        det == run_detect(df, manual_nse_file, thr)
        calr == run_analysis_calibration(lysimeter_type, custom_alpha, custom_beta)
        end == run_analysis(df, manual_nse_file, lysimeter_type, custom_alpha, custom_beta,
                            thr, native, input_timescale, frequency)
        calibrated == end.stage # "detect_nse"
        balanced == end.stage \notin {"detect_nse", "calibration"}
        reconstructed == end.stage \notin {"detect_nse", "calibration", "calculate_eta"}
    IN  /\ last.op = "init"
        /\ native.interval = df.interval
        /\ (native.inferred # None) = Regular(df)
        /\ possible_columns' = Some(CANDIDATES)
        /\ threshold' = thr
        /\ manual_nse_df' = IF manual_nse_file = None THEN None
                            ELSE load_manual_nse(None, manual_nse_file[1]).manual_nse_df
        /\ columns' = det.columns
        /\ NSEcount' = det.count
        /\ cal' = IF calibrated THEN calr.obj ELSE cal
        /\ cal_last' = IF calibrated
                       THEN [op |-> "run_analysis",
                             args |-> <<lysimeter_type, custom_alpha, custom_beta>>,
                             err |-> calr.err, value |-> calr.value]
                       ELSE cal_last
        /\ wb_factor' = IF balanced THEN calr.value ELSE wb_factor
        /\ df' = IF reconstructed THEN calculate_eta(det.df, calr.value).df ELSE det.df
        /\ agg' = IF reconstructed /\ frequency # None
                  THEN aggregate_call(native, input_timescale,
                           aggregate_data(df', native.inferred, input_timescale, frequency[1]))
                  ELSE agg
        /\ last' = [op |-> "run_analysis", err |-> end.err, stage |-> end.stage,
                    outputs |-> end.outputs]

(***************************************************************************)
(* Specifications                                                          *)
(***************************************************************************)
Init == InitPipe /\ InitCal /\ InitAgg

Next ==
    \/ \E m \in ManualSets : LoadManualNse(m) /\ UNCHANGED <<cal, cal_last, agg>>
    \/ DetectNse /\ UNCHANGED <<cal, cal_last, agg>>
    \/ \E f \in Factors : SetCustomCalibrationFactor(f) /\ UNCHANGED <<cal, cal_last, agg>>
    \/ CalculateEta /\ UNCHANGED <<cal, cal_last, agg>>

\* the pipeline: detection and reconstruction on one table
Spec == Init /\ [][Next]_vars

NextCal ==
    \/ \E a \in Alphas \cup {None} : SetAlpha(a) /\ UNCHANGED <<pipe_vars, agg>>
    \/ \E b \in Betas \cup {None} : SetBeta(b) /\ UNCHANGED <<pipe_vars, agg>>
    \/ CalculateCalibrationFactor /\ UNCHANGED <<pipe_vars, agg>>
    \/ \E t \in LysimeterTypes : GetCalibrationFactor(t) /\ UNCHANGED <<pipe_vars, agg>>
    \/ \E t \in LysimeterTypes, a \in Alphas \cup {None}, b \in Betas \cup {None} :
           RunAnalysisCalibration(t, a, b) /\ UNCHANGED <<pipe_vars, agg>>

\* the calibration resolver
InitSpecCal == IdlePipe /\ InitCal /\ InitAgg
SpecCal == InitSpecCal /\ [][NextCal]_vars

\* the detector given a manual-events file of any kind
NextLoad ==
    \/ \E file \in ManualFiles : LoadManualNseFile(file) /\ UNCHANGED <<cal, cal_last, agg>>
    \/ DetectNse /\ UNCHANGED <<cal, cal_last, agg>>

SpecLoad == Init /\ [][NextLoad]_vars

\* one detector object used for several tables and candidate lists
NextNse ==
    \/ \E t \in NseTables : SetDataframe(t) /\ UNCHANGED <<cal, cal_last, agg>>
    \/ \E p \in NsePossibleChoices : SetPossibleColumns(p) /\ UNCHANGED <<cal, cal_last, agg>>
    \/ DetectNse /\ UNCHANGED <<cal, cal_last, agg>>

InitSpecNse == InitNse /\ InitCal /\ InitAgg
SpecNse == InitSpecNse /\ [][NextNse]_vars

\* whole runs of run_analysis
NextRun ==
    \E manual_nse_file \in {None, Some([events |-> <<Event(2, 3, "irrigation")>>,
                                         missing |-> {}])},
       lysimeter_type \in LysimeterTypes,
       custom_alpha \in Alphas \cup {None}, custom_beta \in Betas \cup {None},
       thr \in Thresholds, native \in NativeCases,
       frequency \in {None, Some(<<"D">>), Some(<<"5","T">>)} :
        RunAnalysis(manual_nse_file, lysimeter_type, custom_alpha, custom_beta, thr,
                    native, frequency)

InitSpecRun == InitRun /\ InitCal /\ InitAgg
SpecRun == InitSpecRun /\ [][NextRun]_vars

\* the tables of the aggregator with the detector and the water balance as
\* run_analysis sets them up before the first stage
InitAggPipe ==
    /\ df \in AggTables
    /\ possible_columns = Some(CANDIDATES)
    /\ columns = None
    /\ threshold \in Thresholds
    /\ NSEcount = <<>>
    /\ manual_nse_df \in {None, Some(<<Event(1, 2, "irrigation"), Event(2, 4, "rain")>>)}
    /\ wb_factor = Rat(3, 2)
    /\ last = [op |-> "init", err |-> "none"]

\* the stages in the order of run_analysis: aggregate_data is called once and is
\* the last call made on a table
NextAgg ==
    \/ /\ ~agg.called
       /\ DetectNse
       /\ UNCHANGED <<cal, cal_last, agg>>
    \/ /\ ~agg.called
       /\ CalculateEta
       /\ UNCHANGED <<cal, cal_last, agg>>
    \/ /\ ~agg.called
       /\ \E native \in NativeCases, f \in TargetFrequencies :
            \E its \in {None, Some(timescale_label(native.interval))} :
                AggregateData(native, its, f)
       /\ UNCHANGED <<cal, cal_last>>

\* the stages of the pipeline followed by the aggregator
InitSpecAgg == InitAggPipe /\ InitCal /\ InitAgg
SpecAgg == InitSpecAgg /\ [][NextAgg]_vars

(***************************************************************************)
(* Properties                                                              *)
(***************************************************************************)
\* detect_nse has just returned normally
Detected == last.op = "detect_nse" /\ last.err = "none"
\* calculate_eta has just returned normally
Reconstructed == last.op = "calculate_eta" /\ last.err = "none"
\* the channels selected by the detection
Selected == IF columns = None THEN {} ELSE Range(columns[1])
\* the manual intervals loaded (none when no file was loaded)
ManualEvents == IF manual_nse_df = None THEN {} ELSE Range(manual_nse_df[1])
\* the manual intervals [start, stop] that contain the TIMESTAMP of row i
Covering(i) == {e \in ManualEvents : e.start <= df.ts[i] /\ df.ts[i] <= e.stop}
\* C[i] - C[i-1] is defined and strictly greater than the threshold
DeltaExceeds(c, i) ==
    /\ i > 1
    /\ RGt(RSub(Col(df, c, RAW)[i], Col(df, c, RAW)[i - 1]), threshold)
DeltaEquals(c, i) ==
    /\ i > 1
    /\ RSub(Col(df, c, RAW)[i], Col(df, c, RAW)[i - 1]) = threshold

\* C1: after detect_nse with a manual event set loaded, every row of every
\* selected channel whose TIMESTAMP lies in a manual interval, endpoints
\* included, has C_NSE = 1 whatever its delta, and its C_NSE_Type contains the
\* label of that interval.
C1_ManualPrecedence ==
    (Detected /\ manual_nse_df # None) =>
        \A c \in Selected : \A i \in Rows(df) : \A e \in Covering(i) :
            /\ Col(df, c, "_NSE")[i] = 1
            /\ e.type \in Range(Col(df, c, "_NSE_Type")[i])

\* a row at the stop instant of a manual interval, with a delta that does not
\* exceed the threshold, is flagged
C1_Witness ==
    /\ Detected
    /\ \E c \in Selected : \E i \in Rows(df) : \E e \in Covering(i) :
          /\ df.ts[i] = e.stop
          /\ e.start < e.stop
          /\ ~DeltaExceeds(c, i)
          /\ Col(df, c, "_NSE")[i] = 1

\* C2: the automatic pass never overwrites a manual flag: after detect_nse the
\* C_NSE_Type of a row covered by a manual interval is made of the labels of
\* the intervals covering it and is never "auto-detected", even when the delta
\* of the row exceeds the threshold.
C2_AutoKeepsManual ==
    Detected =>
        \A c \in Selected : \A i \in Rows(df) :
            Covering(i) # {} =>
                /\ Col(df, c, "_NSE_Type")[i] # None
                /\ Col(df, c, "_NSE_Type")[i] # <<AUTO>>
                /\ Range(Col(df, c, "_NSE_Type")[i]) = {e.type : e \in Covering(i)}

\* a covered row whose delta exceeds the threshold
C2_Witness ==
    /\ Detected
    /\ \E c \in Selected : \E i \in Rows(df) :
          /\ Covering(i) # {}
          /\ DeltaExceeds(c, i)
          /\ Col(df, c, "_NSE_Type")[i] # <<AUTO>>

\* C3: a row covered by no manual interval has C_NSE = 1 and C_NSE_Type =
\* "auto-detected" exactly when its delta C[i] - C[i-1] is defined and strictly
\* greater than the threshold; otherwise (delta equal to the threshold,
\* negative, or undefined) C_NSE = 0.  The values [10,10,10,50,10,10] with
\* threshold 5 give [0,0,0,1,0,0].
C3_ThresholdEdge ==
    Detected =>
        /\ \A c \in Selected : \A i \in Rows(df) :
              Covering(i) = {} =>
                  IF DeltaExceeds(c, i)
                  THEN /\ Col(df, c, "_NSE")[i] = 1
                       /\ Col(df, c, "_NSE_Type")[i] = <<AUTO>>
                  ELSE Col(df, c, "_NSE")[i] = 0
        /\ (/\ "SM50_1_Avg" \in Selected
            /\ Col(df, "SM50_1_Avg", RAW) = ScenarioValues
            /\ ManualEvents = {}
            /\ threshold = Num(5))
               => Col(df, "SM50_1_Avg", "_NSE") = <<0, 0, 0, 1, 0, 0>>

\* one table with an unflagged row whose delta equals the threshold and a
\* flagged row whose delta is above it, neither in a manual interval
C3_Witness ==
    /\ Detected
    /\ \E c \in Selected : \E i, j \in Rows(df) :
          /\ Covering(i) = {} /\ DeltaEquals(c, i) /\ Col(df, c, "_NSE")[i] = 0
          /\ Covering(j) = {} /\ DeltaExceeds(c, j) /\ Col(df, c, "_NSE")[j] = 1

\* C4: after detect_nse, NSEcount[C] is the number of rows with C_NSE = 1 in the
\* returned table, manual and automatic flags counted together.
C4_CountMatchesFlags ==
    Detected =>
        \A c \in Selected :
            /\ c \in DOMAIN NSEcount
            /\ NSEcount[c] = Cardinality({i \in Rows(df) : Col(df, c, "_NSE")[i] = 1})

\* a channel with a manually flagged row, an automatically flagged row and an
\* unflagged row
C4_Witness ==
    /\ Detected
    /\ \E c \in Selected : \E i, j, k \in Rows(df) :
          /\ Covering(i) # {} /\ Col(df, c, "_NSE")[i] = 1
          /\ Col(df, c, "_NSE_Type")[j] = <<AUTO>>
          /\ Col(df, c, "_NSE")[k] = 0
          /\ NSEcount[c] >= 2

\* no candidate channel name is a column of the table
NoCandidate ==
    possible_columns # None /\
    \A k \in 1..Len(possible_columns[1]) : ~HasCol(df, possible_columns[1][k], RAW)

\* C5: detect_nse fails with an error when no candidate channel is a column of
\* the table, and then it adds no column and no NSEcount entry.
C5_NoCandidateFails ==
    [][(last'.op = "detect_nse" /\ NoCandidate) =>
          (last'.err # "none" /\ df' = df /\ NSEcount' = NSEcount)]_vars

\* detect_nse has failed on a table none of whose columns is a candidate
C5_Witness ==
    /\ last = [op |-> "detect_nse", err |-> "ValueError"]
    /\ NoCandidate
    /\ NSEcount = <<>>
    /\ \A k \in DOMAIN df.col : k[2] = RAW

\* C6: calculate_eta fails with an error when no calibration factor is set, and
\* then changes no column of the table; with a factor set it does not raise
\* that error.
C6_FactorRequired ==
    [][last'.op = "calculate_eta" =>
          IF wb_factor = None
          THEN last'.err = "ValueError" /\ df' = df
          ELSE last'.err = "none"]_vars

\* calculate_eta has failed on a table that detect_nse had given its columns
C6_Witness ==
    /\ last = [op |-> "calculate_eta", err |-> "ValueError"]
    /\ wb_factor = None
    /\ delta_channels(df) # {}

\* C7: after calculate_eta the cumulative column is the running sum of the
\* final ETa column.
C7_CumulativeConsistency ==
    Reconstructed =>
        \A c \in delta_channels(df) : \A i \in Rows(df) :
            Col(df, c, "_Cumulative_ETa")[i] =
                IF i = 1 THEN Col(df, c, "_ETa")[1]
                ELSE RAdd(Col(df, c, "_Cumulative_ETa")[i - 1], Col(df, c, "_ETa")[i])

\* a reconstructed channel whose final ETa differs from its raw ETa and whose
\* cumulative column moves at a row after the first
C7_Witness ==
    /\ Reconstructed
    /\ \E c \in delta_channels(df) : \E i, j \in Rows(df) :
          /\ i > 1
          /\ ~IsNaN(Col(df, c, "_ETa")[i])
          /\ Col(df, c, "_Cumulative_ETa")[i] # Col(df, c, "_Cumulative_ETa")[i - 1]
          /\ Col(df, c, "_ETa")[j] # Col(df, c, "_ETa_Raw")[j]

\* the rows of channel c that are not NSE-masked and whose depth is defined
Unmasked(c) ==
    {k \in Rows(df) : Col(df, c, "_NSE")[k] = 0 /\ ~IsNaN(Col(df, c, "_deltaMM")[k])}
Between(lo, x, hi) == RLe(RMin(lo, hi), x) /\ RLe(x, RMax(lo, hi))

\* C8: after the NSE interpolation, the value written at an NSE-masked row that
\* has an unmasked defined row on each side lies between the values of the
\* nearest such row on each side.
C8_InterpolationBounds ==
    Reconstructed =>
        \A c \in delta_channels(df) : \A p \in Rows(df) :
            LET B == {k \in Unmasked(c) : k < p}
                A == {k \in Unmasked(c) : k > p}
            IN  (Col(df, c, "_NSE")[p] = 1 /\ B # {} /\ A # {}) =>
                    Between(Col(df, c, "_deltaMM")[SetMax(B)],
                            Col(df, c, "_ETa_Raw")[p],
                            Col(df, c, "_deltaMM")[SetMin(A)])

\* a masked row strictly inside the range of two different neighbours, its
\* interpolated value different from the depth measured at it
C8_Witness ==
    /\ Reconstructed
    /\ \E c \in delta_channels(df) : \E p \in Rows(df) :
          LET B == {k \in Unmasked(c) : k < p}
              A == {k \in Unmasked(c) : k > p}
          IN  /\ Col(df, c, "_NSE")[p] = 1 /\ B # {} /\ A # {}
              /\ Col(df, c, "_deltaMM")[SetMax(B)] # Col(df, c, "_deltaMM")[SetMin(A)]
              /\ Col(df, c, "_ETa_Raw")[p] # Col(df, c, "_deltaMM")[p]
              /\ Col(df, c, "_ETa_Raw")[p] # Col(df, c, "_deltaMM")[SetMax(B)]
              /\ Col(df, c, "_ETa_Raw")[p] # Col(df, c, "_deltaMM")[SetMin(A)]

\* C9: aggregate_data raises an error and returns no table whenever the target
\* frequency is finer than the sampling interval of the data, whatever unit
\* letters the two frequency strings carry.
C9_FinerTargetRaises ==
    (agg.called /\ pandas_seconds(agg.frequency) < agg.interval) =>
        (agg.err # "none" /\ ~agg.returned)

\* C10: calibration resolution as run_analysis performs it: a preset SL or LL
\* gives the constant of the preset; no preset with alpha and beta given gives
\* alpha * (1/1000) * (1/beta) * 1000 = alpha / beta; no preset with alpha or
\* beta missing raises an error and gives no factor.
C10_Resolution ==
    cal_last.op = "run_analysis" =>
        LET preset == cal_last.args[1]
            alpha == cal_last.args[2]
            beta == cal_last.args[3]
        IN  /\ (preset \in {Some("SL"), Some("LL")} /\ alpha = None /\ beta = None) =>
                  (cal_last.err = "none" /\ cal_last.value = default_calibrations[preset[1]])
            /\ (preset = None /\ alpha # None /\ beta # None /\ beta # Zero) =>
                  (cal_last.err = "none"
                   /\ cal_last.value = Rat(alpha[1] * beta[2], alpha[2] * beta[1]))
            /\ (preset = None /\ (alpha = None \/ beta = None)) =>
                  (cal_last.err # "none" /\ cal_last.value = None)

(***************************************************************************)
(* Properties of the aggregator                                            *)
(***************************************************************************)
\* aggregate_data has returned a table
Aggregated == agg.called /\ agg.returned
\* the length in seconds of the bins of the last call
AggSeconds == pandas_seconds(agg.frequency)
\* the left edge of bin j of the returned table
OutStart(j) == IF AggSeconds = 604800 THEN agg.out.ts[j] - 6 * 86400 ELSE agg.out.ts[j]
\* the rows of the input table whose TIMESTAMP lies in bin j
Bucket(j) ==
    {i \in Rows(df) : /\ OutStart(j) <= df.ts[i] * df.interval
                      /\ df.ts[i] * df.interval < OutStart(j) + AggSeconds}
OutRows == 1..Len(agg.out.ts)

\* C11: every stage widens the table monotonically: each column of the table
\* given to detect_nse, to calculate_eta or to aggregate_data is a column of the
\* table the stage returns.
C11_MonotoneWidening ==
    [][/\ last'.op \in {"detect_nse", "calculate_eta"} =>
              DOMAIN df.col \subseteq DOMAIN df'.col
       /\ (last'.op = "aggregate_data" /\ agg'.returned) =>
              DOMAIN df.col \subseteq DOMAIN agg'.out.col]_vars

\* a table with the columns of the detection and of the reconstruction, text
\* columns included, aggregated to fewer rows with every column kept
C11_Witness ==
    /\ Aggregated
    /\ Len(agg.out.ts) < NRows(df)
    /\ {Key("SM50_1_Avg", RAW), Key("SM50_1_Avg", "_NSE_Type"), Key("Station", RAW),
        Key("SM50_1_Avg", "_Cumulative_ETa")} \subseteq DOMAIN df.col
    /\ DOMAIN agg.out.col = DOMAIN df.col

\* the reducer the precedence of the claim gives a column
ExpectedReducer(key) ==
    IF key[2] = "_NSE" THEN "max"
    ELSE IF key[2] = "_NSE_Type" THEN "join"
    ELSE IF key[1] \in TextColumns THEN "first"
    ELSE IF key[2] \in {"_ETa", "_ETa_Raw", "_deltaMM", "_deltaMVV",
                        "_Cumulative_ETa", "_Cumulative_ETa_Raw"} THEN "sum"
    ELSE "mean"

\* the rows of R on which column v holds a value, and their cells
Holding(v, R) == {r \in R : v[r] # None}
CellsOf(v, H) == {v[i] : i \in H}
\* string x occurs in the joined string out
OccursIn(x, out) == \E k \in 0..(Len(out) - Len(x)) : SubSeq(out, k + 1, k + Len(x)) = x

\* out is what the reducer `rule' makes of column v on the rows H that hold a
\* value, cells being the cells of those rows
Reduced(rule, out, v, H, cells) ==
    CASE rule = "max" ->
            IF H = {} THEN IsNaN(out)
            ELSE out \in cells /\ \A x \in cells : RLe(x, out)
      [] rule = "sum" ->
            out = SumRange(v, H, 1, Len(v))
      [] rule = "mean" ->
            IF H = {} THEN IsNaN(out)
            ELSE RMul(out, Num(Cardinality(H))) = SumRange(v, H, 1, Len(v))
      [] rule = "first" ->
            IF H = {} THEN out = None
            ELSE \E r \in H : out = v[r] /\ \A q \in H : r <= q
      [] rule = "join" ->
            IF H = {} THEN out = <<"">>
            ELSE /\ \A x \in cells : OccursIn(x, out)
                 /\ \E x \in cells :
                       /\ SubSeq(out, 1, Len(x)) = x
                       /\ \A y \in cells \ {x} : str_less(x, y)
                 /\ \E x \in cells :
                       /\ SubSeq(out, Len(out) - Len(x) + 1, Len(out)) = x
                       /\ \A y \in cells \ {x} : str_less(y, x)
ReducedOn(rule, out, v, H) == Reduced(rule, out, v, H, CellsOf(v, H))
ReducedAs(rule, key, j) ==
    ReducedOn(rule, agg.out.col[key][j], column_cells(df, key),
              Holding(column_cells(df, key), Bucket(j)))

\* C12: aggregate_data gives every column other than TIMESTAMP exactly one
\* reducer, by name and type in this precedence: numeric NSE flag -> max; NSE
\* type text -> the sorted unique non-null values joined by ", "; other numeric
\* ETa / delta / cumulative column -> sum; any other numeric column -> mean; any
\* other non-numeric column -> first non-null value; and each bin of the
\* returned table holds what that reducer makes of the rows of the bin.
C12_ReducerPrecedence ==
    Aggregated =>
        /\ DOMAIN agg.rules = DOMAIN df.col
        /\ \A key \in DOMAIN df.col :
              /\ agg.rules[key] = ExpectedReducer(key)
              /\ \A j \in OutRows : ReducedAs(ExpectedReducer(key), key, j)

\* a returned table in which the five reducers have each acted on a bin of at
\* least two rows, one bin holding two different event types
C12_Witness ==
    /\ Aggregated
    /\ \A rule \in {"max", "join", "sum", "mean", "first"} :
          \E key \in DOMAIN agg.rules : agg.rules[key] = rule
    /\ \E j \in OutRows : Cardinality(Bucket(j)) >= 2
    /\ \E key \in DOMAIN df.col : \E j \in OutRows :
          /\ agg.rules[key] = "join"
          /\ Cardinality(CellsOf(df.col[key], Holding(df.col[key], Bucket(j)))) >= 2

\* the columns of per-step quantities that are reduced by sum
StepColumns == {key \in DOMAIN df.col : key[2] \in {"_ETa", "_deltaMM", "_deltaMVV"}}

\* C13: for every sum-reduced column of per-step values (ETa, deltaMM, deltaMVV)
\* each bin of the returned table holds the sum of the rows falling in the bin
\* (missing cells skipped), so that the total over the bins is the total over
\* the rows; 96 fifteen-minute samples of value 1 in one day give a daily value
\* of 96.
C13_SumBuckets ==
    Aggregated =>
        /\ \A key \in StepColumns :
              /\ \A j \in OutRows :
                    agg.out.col[key][j] = SumRange(df.col[key], Bucket(j), 1, NRows(df))
              /\ SumValid(agg.out.col[key], Len(agg.out.ts)) = SumValid(df.col[key], NRows(df))
        /\ (/\ df.ts = DayOfOnes.ts
            /\ df.interval = 900
            /\ df.col[Key("SM50_1_Avg", "_ETa")] = DayOfOnes.col[Key("SM50_1_Avg", "_ETa")]
            /\ AggSeconds = 86400)
               => agg.out.col[Key("SM50_1_Avg", "_ETa")] = <<Num(96)>>

\* the day of 96 fifteen-minute samples of value 1 aggregated to one daily row
C13_Witness ==
    /\ Aggregated
    /\ NRows(df) = SamplesPerDay
    /\ df.interval = 900
    /\ AggSeconds = 86400
    /\ agg.out.col[Key("SM50_1_Avg", "_ETa")] = <<Num(SamplesPerDay)>>

(***************************************************************************)
(* Properties of the manual labels                                         *)
(***************************************************************************)
\* the manual intervals that contain the TIMESTAMP of row i, in the order of
\* the manual set
CoveringInOrder(i) ==
    IF manual_nse_df = None THEN <<>>
    ELSE SelectSeq(manual_nse_df[1],
                   LAMBDA e : e.start <= df.ts[i] /\ df.ts[i] <= e.stop)
\* their labels, each once
LabelsOnce(i) == Fix([k \in 1..Len(CoveringInOrder(i)) |-> CoveringInOrder(i)[k].type])

\* C17: after detect_nse, a row covered by k >= 1 manual intervals has in
\* C_NSE_Type the labels of those intervals in manual-set order joined by ", ",
\* each covering interval contributing its label exactly once; a row covered by
\* a single interval holds exactly the label of that interval.
C17_LabelsOnce ==
    Detected =>
        \A c \in Selected : \A i \in Rows(df) :
            Covering(i) # {} => Col(df, c, "_NSE_Type")[i] = LabelsOnce(i)

(***************************************************************************)
(* Properties of the reconstruction                                        *)
(***************************************************************************)
\* the rows of channel c flagged as non-standard events
NseRows(c) == {i \in Rows(df) : Col(df, c, "_NSE")[i] = 1}

NoisyRows(c) == {i \in Rows(df) : Col(df, c, "_Noisy_Flag")[i] = 1}
\* the rows of channel c that hold a clean value: not noisy, and a value >= 0
CleanRows(c) ==
    {k \in Rows(df) \ NoisyRows(c) : RLe(Zero, Col(df, c, "_ETa_Raw")[k])}
CleanBefore(c, p) == {k \in CleanRows(c) : k < p}
CleanAfter(c, p) == {k \in CleanRows(c) : k > p}

\* C19: after calculate_eta, every row p of a noisy span that has a clean value
\* (non-noisy, non-negative, a value of exactly 0 included) on each side lies on
\* the line through the nearest clean value before the span (row a) and the
\* nearest after it (row b): C_ETa[p] = v[a] + (v[b] - v[a]) * (p - a) / (b - a),
\* v being the raw ETa series.
C19_SpanInterpolated ==
    Reconstructed =>
        \A c \in delta_channels(df) : \A p \in NoisyRows(c) :
            (CleanBefore(c, p) # {} /\ CleanAfter(c, p) # {}) =>
                Col(df, c, "_ETa")[p] =
                    line_at(SetMax(CleanBefore(c, p)),
                            Col(df, c, "_ETa_Raw")[SetMax(CleanBefore(c, p))],
                            SetMin(CleanAfter(c, p)),
                            Col(df, c, "_ETa_Raw")[SetMin(CleanAfter(c, p))], p)

\* C20: after calculate_eta, a row p of a noisy span without a clean value on
\* one side (the span reaches the start or the end of the table) is not
\* interpolated: C_ETa[p] is the nearest clean value, the last one before the
\* span (forward fill) or else the first one after it (backward fill), and not
\* the raw noisy value of the row.
C20_EdgeSpanFilled ==
    Reconstructed =>
        \A c \in delta_channels(df) : \A p \in NoisyRows(c) :
            /\ (CleanBefore(c, p) # {} /\ CleanAfter(c, p) = {}) =>
                   Col(df, c, "_ETa")[p] = Col(df, c, "_ETa_Raw")[SetMax(CleanBefore(c, p))]
            /\ (CleanBefore(c, p) = {} /\ CleanAfter(c, p) # {}) =>
                   Col(df, c, "_ETa")[p] = Col(df, c, "_ETa_Raw")[SetMin(CleanAfter(c, p))]

(***************************************************************************)
(* Properties of the calibration factor                                    *)
(***************************************************************************)
\* the last calibration call returned a factor
FactorReturned == cal_last.err = "none" /\ cal_last.value # None

\* C16: the calibration factor is strictly positive: every factor the
\* calibration resolver returns, whatever alpha and beta it was given, is > 0,
\* and so is every factor with which calculate_eta runs to completion.
C16_FactorPositive ==
    /\ FactorReturned => RGt(cal_last.value, Zero)
    /\ Reconstructed => RGt(wb_factor, Zero)

(***************************************************************************)
(* Properties of the manual-events file                                    *)
(***************************************************************************)
\* the file lacks a required column
Malformed(file) == file.missing # {}

\* C15: loading a malformed manual-events file fails with an error and leaves
\* no manual event set loaded, and the detection that follows does not proceed:
\* it runs neither with the set of the malformed file nor, silently, with
\* automatic detection alone.
C15_MalformedLoadFails ==
    [][/\ (last'.op = "load_manual_nse" /\ Malformed(last'.file)) =>
              (last'.err # "none" /\ manual_nse_df' = None)
       /\ (last.op = "load_manual_nse" /\ Malformed(last.file) /\ last'.op = "detect_nse") =>
              last'.err # "none"]_vars

(***************************************************************************)
(* Properties of a run                                                     *)
(***************************************************************************)
\* the run ended in a configuration error: no matching channel, no calibration
\* factor resolvable, or a target frequency finer than the data
ConfigurationError ==
    /\ last.op = "run_analysis"
    /\ \/ last.stage = "detect_nse" /\ last.err = "ValueError"
       \/ last.stage = "calibration" /\ last.err = "ValueError"
       \/ last.stage = "aggregate_data" /\ last.err = "ValueError: smaller timescale"

\* C14: a run of run_analysis that ends in a configuration error has written no
\* output file (NSE plot, ETa plots, report, CSV): the error aborts the run
\* before any output.
C14_NoPartialOutput == ConfigurationError => last.outputs = {}

(***************************************************************************)
(* Properties of the depth conversion                                      *)
(***************************************************************************)
\* the rows of channel c whose signal difference is defined
DeltaRows(c) == {i \in Rows(df) : ~IsNaN(Col(df, c, "_deltaMVV")[i])}

\* C22: after calculate_eta, C_deltaMM[i] = -1 * C_deltaMVV[i] * factor on every
\* row of every channel where the difference is defined, so that a decrease of
\* the signal gives a positive depth and an increase a negative one.
C22_DepthConversion ==
    Reconstructed =>
        \A c \in delta_channels(df) : \A i \in DeltaRows(c) :
            /\ Col(df, c, "_deltaMM")[i] =
                   RMul(Num(-1), RMul(Col(df, c, "_deltaMVV")[i], wb_factor))
            /\ RLt(Col(df, c, "_deltaMVV")[i], Zero) => RGt(Col(df, c, "_deltaMM")[i], Zero)
            /\ RGt(Col(df, c, "_deltaMVV")[i], Zero) => RLt(Col(df, c, "_deltaMM")[i], Zero)

(***************************************************************************)
(* Properties of the noise flags                                           *)
(***************************************************************************)
\* the raw ETa series of channel c
RawEta(c) == Col(df, c, "_ETa_Raw")
\* the magnitude of the percent change of row i from the value before it (the
\* last defined one) exceeds the threshold of 70
PercentChangeExceeds(c, i) ==
    /\ ~IsNaN(RawEta(c)[i])
    /\ ValidBefore(RawEta(c), i) # {}
    /\ pct_exceeds(RawEta(c)[SetMax(ValidBefore(RawEta(c), i))], RawEta(c)[i])
Negative(c, i) == RLt(RawEta(c)[i], Zero)
\* |v[i] - mean| > 3 std, compared on the squares
BeyondThreeSigma(c, i) ==
    RGt(RSq(RSub(RawEta(c)[i], mean(RawEta(c)))), RMul(Num(9), variance(RawEta(c))))

\* C21: after calculate_eta, C_Noisy_Flag[i] is 1 exactly when the percent change
\* of the raw ETa from the previous value exceeds 70 in magnitude, or the value
\* is negative, or it lies more than 3 standard deviations from the channel
\* mean, or C_NSE[i] = 1, and is 0 otherwise; so every NSE row and every
\* negative row is flagged noisy.
C21_NoisyFlag ==
    Reconstructed =>
        \A c \in delta_channels(df) : \A i \in Rows(df) :
            /\ Col(df, c, "_Noisy_Flag")[i] \in {0, 1}
            /\ Col(df, c, "_Noisy_Flag")[i] = 1 <=>
                  \/ PercentChangeExceeds(c, i)
                  \/ Negative(c, i)
                  \/ BeyondThreeSigma(c, i)
                  \/ Col(df, c, "_NSE")[i] = 1

\* a table with a row flagged for its distance from the mean alone, a row
\* flagged as an NSE alone, and a row with a value that is left unflagged
C21_Witness ==
    /\ Reconstructed
    /\ \E c \in delta_channels(df) : \E i, j, k \in Rows(df) :
          /\ Col(df, c, "_Noisy_Flag")[i] = 1 /\ BeyondThreeSigma(c, i)
          /\ ~PercentChangeExceeds(c, i) /\ ~Negative(c, i) /\ Col(df, c, "_NSE")[i] = 0
          /\ Col(df, c, "_Noisy_Flag")[j] = 1 /\ Col(df, c, "_NSE")[j] = 1
          /\ ~PercentChangeExceeds(c, j) /\ ~Negative(c, j) /\ ~BeyondThreeSigma(c, j)
          /\ Col(df, c, "_Noisy_Flag")[k] = 0 /\ ~IsNaN(RawEta(c)[k])

(***************************************************************************)
(* Properties of the event flags                                           *)
(***************************************************************************)
\* C25: after detect_nse, on every row of every selected channel C_NSE is 0 or 1,
\* and C_NSE is 1 exactly when C_NSE_Type is not null: no row is flagged without
\* a type and no unflagged row carries one.
C25_FlagHasType ==
    Detected =>
        \A c \in Selected : \A i \in Rows(df) :
            /\ Col(df, c, "_NSE")[i] \in {0, 1}
            /\ Col(df, c, "_NSE")[i] = 1 <=> Col(df, c, "_NSE_Type")[i] # None

\* a channel with a row flagged by a manual interval, a row flagged by the
\* automatic pass and a row that is not flagged
C25_Witness ==
    /\ Detected
    /\ \E c \in Selected : \E i, j, k \in Rows(df) :
          /\ Covering(i) # {} /\ Col(df, c, "_NSE")[i] = 1
          /\ Covering(j) = {} /\ Col(df, c, "_NSE_Type")[j] = <<AUTO>>
          /\ Col(df, c, "_NSE")[k] = 0 /\ Col(df, c, "_NSE_Type")[k] = None

(***************************************************************************)
(* Properties of the noise interpolation                                   *)
(***************************************************************************)
\* C26: after calculate_eta, every row with C_Noisy_Flag = 0 and a defined
\* C_ETa_Raw has C_ETa equal to its C_ETa_Raw: the noise interpolation changes
\* only rows that are flagged noisy.
C26_CleanRowsKept ==
    Reconstructed =>
        \A c \in delta_channels(df) : \A i \in Rows(df) :
            (Col(df, c, "_Noisy_Flag")[i] = 0 /\ ~IsNaN(RawEta(c)[i]))
                => Col(df, c, "_ETa")[i] = RawEta(c)[i]

(***************************************************************************)
(* Properties of the frame of the reconstruction                           *)
(***************************************************************************)
\* the columns the detection hands to the reconstruction
DetectionSuffixes == {RAW, "_deltaMVV", "_NSE", "_NSE_Type"}

\* C29: calculate_eta leaves TIMESTAMP and the columns C, C_deltaMVV, C_NSE and
\* C_NSE_Type of every channel unchanged in every row, so that the NSEcount of
\* the detection is still the number of rows with C_NSE = 1 after it.
C29_DetectionColumnsKept ==
    [][last'.op = "calculate_eta" =>
          /\ df'.ts = df.ts
          /\ \A key \in DOMAIN df.col :
                key[2] \in DetectionSuffixes =>
                    (key \in DOMAIN df'.col /\ df'.col[key] = df.col[key])
          /\ NSEcount' = NSEcount
          /\ \A c \in Selected :
                NSEcount'[c] = Cardinality({i \in Rows(df') : Col(df', c, "_NSE")[i] = 1})]_vars

\* a reconstruction that rewrote the raw ETa of an NSE row and flagged a row
\* noisy that is not an NSE, with the count of the detection still right
C29_Witness ==
    /\ Reconstructed
    /\ \E c \in Selected :
          /\ NSEcount[c] = Cardinality(NseRows(c))
          /\ NseRows(c) # {}
          /\ \E i \in NseRows(c) : RawEta(c)[i] # Col(df, c, "_deltaMM")[i]
          /\ NoisyRows(c) \ NseRows(c) # {}

(***************************************************************************)
(* The cumulative column after aggregation                                 *)
(***************************************************************************)
\* the channels whose ETa and cumulative ETa columns are both in the table
\* handed to aggregate_data
CumulativeChannels ==
    {key[1] : key \in {k \in DOMAIN df.col : k[2] = "_Cumulative_ETa" /\ HasCol(df, k[1], "_ETa")}}

\* C28: after aggregate_data the C_Cumulative_ETa column of the
\* returned table is the running sum of the returned C_ETa column.
C28_RunningSumKept ==
    Aggregated =>
        \A c \in CumulativeChannels :
            agg.out.col[Key(c, "_Cumulative_ETa")] = cumsum(agg.out.col[Key(c, "_ETa")])

\* what aggregate_data returns instead: "_ETa" occurs in "_Cumulative_ETa", so
\* each bin of the returned cumulative column holds the sum of the input
\* cumulative cells of the rows of the bin
C28_CumulativeSummed ==
    Aggregated =>
        \A c \in CumulativeChannels : \A j \in OutRows :
            agg.out.col[Key(c, "_Cumulative_ETa")][j] =
                SumRange(df.col[Key(c, "_Cumulative_ETa")], Bucket(j), 1, NRows(df))

\* a returned table with a bin of two or more rows whose cumulative column is
\* not the running sum of its ETa column
C28_Witness ==
    /\ Aggregated
    /\ \E c \in CumulativeChannels :
          /\ \E j \in OutRows : Cardinality(Bucket(j)) >= 2
          /\ agg.out.col[Key(c, "_Cumulative_ETa")] # cumsum(agg.out.col[Key(c, "_ETa")])

(***************************************************************************)
(* The event flag after aggregation                                        *)
(***************************************************************************)
\* the event flag columns of the table handed to aggregate_data
FlagColumns == {key \in DOMAIN df.col : key[2] = "_NSE"}
\* the rows of bin j whose flag is 1
FlaggedIn(key, j) == {i \in Bucket(j) : df.col[key][i] = 1}

\* C23: in the returned table the C_NSE flag of a bin is 1 exactly when at
\* least one input row of the bin has C_NSE = 1, and 0 when the bin has rows
\* and none of them is flagged.
C23_BucketFlag ==
    Aggregated =>
        \A key \in FlagColumns : \A j \in OutRows :
            /\ agg.out.col[key][j] = Num(1) <=> FlaggedIn(key, j) # {}
            /\ (Bucket(j) # {} /\ FlaggedIn(key, j) = {}) => agg.out.col[key][j] = Num(0)

\* a returned table with a bin whose later rows only are flagged, and a bin
\* of several rows none of which is flagged
C23_Witness ==
    /\ Aggregated
    /\ \E key \in FlagColumns :
          /\ \E j \in OutRows :
                /\ FlaggedIn(key, j) # {}
                /\ df.col[key][SetMin(Bucket(j))] = 0
                /\ agg.out.col[key][j] = Num(1)
          /\ \E j \in OutRows :
                /\ Cardinality(Bucket(j)) >= 2
                /\ FlaggedIn(key, j) = {}
                /\ agg.out.col[key][j] = Num(0)

(***************************************************************************)
(* Properties of get_calibration_factor                                    *)
(***************************************************************************)
\* the last call was get_calibration_factor(lysimeter_type)
Got(lysimeter_type) ==
    cal_last.op = "get_calibration_factor" /\ cal_last.args = <<lysimeter_type>>

\* C24: given a supported preset name (SL or LL), get_calibration_factor
\* returns the constant of that preset (157.43 for SL, 76.2 for LL) whatever
\* alpha, beta and computed custom factor the object holds, and the two
\* constants differ.
C24_PresetConstant ==
    /\ Got(Some("SL")) => (cal_last.err = "none" /\ cal_last.value = Rat(15743, 100))
    /\ Got(Some("LL")) => (cal_last.err = "none" /\ cal_last.value = Rat(762, 10))
    /\ default_calibrations["SL"] # default_calibrations["LL"]

\* a preset asked of an object that holds alpha, beta and a computed custom
\* factor other than the constant returned
C24_Witness ==
    /\ \E t \in {Some("SL"), Some("LL")} : Got(t)
    /\ cal.alpha # None /\ cal.beta # None
    /\ cal.custom_calibration_factor # None
    /\ cal.custom_calibration_factor # cal_last.value

\* C27: after any sequence of set_alpha, set_beta and
\* calculate_calibration_factor, the factor get_calibration_factor() returns
\* without a preset is alpha / beta of the alpha and beta the object holds
\* now: no factor computed from earlier values is returned after a later
\* setter or a failed calculate_calibration_factor.
C27_FactorIsCurrent ==
    (Got(None) /\ FactorReturned) =>
        /\ cal.alpha # None /\ cal.beta # None /\ cal.beta # Zero
        /\ cal_last.value = Rat(cal.alpha[1] * cal.beta[2], cal.alpha[2] * cal.beta[1])

(***************************************************************************)
(* NSEcount over several detections on one object                          *)
(***************************************************************************)
\* C30: after any sequence of set_possible_columns, set_dataframe and
\* detect_nse on one object, the keys of NSEcount are exactly the channels
\* selected by the most recent successful detect_nse: no count of a channel of
\* an earlier detection remains.
C30_CountKeysCurrent == DOMAIN NSEcount = Selected

====
